---- MODULE Spec2Model ----
(***************************************************************************)
(* The theme packaging pipeline (buildTheme): the theme directory is       *)
(* emptied, theme-src is copied into it, the files of dist/assets are      *)
(* copied into theme/assets under normalized names, and the theme          *)
(* directory is written to theme.zip.                                      *)
(*                                                                         *)
(* A file name is a sequence of characters; a path inside a tree is        *)
(* <<directory, name>> with directory "" for the root of the tree; the     *)
(* content of a file is the tag of the file whose bytes it holds.          *)
(***************************************************************************)
EXTENDS Integers, Sequences, FiniteSets, TLC

\* ------------------------------------------------------------------ bounds
MaxRuns == 2
MaxDistFiles == 3
MaxCalls == 3

\* The processes running buildTheme; a single invocation is process 1.
Procs == {1, 2}

\* ------------------------------------------------------------- file names
CssSuffix == <<".", "c", "s", "s">>
JsSuffix == <<".", "j", "s">>
IndexCss == <<"i", "n", "d", "e", "x", ".", "c", "s", "s">>
IndexJs == <<"i", "n", "d", "e", "x", ".", "j", "s">>

BundleCss == <<"a", ".", "c", "s", "s">>
ChunkCss == <<"b", ".", "c", "s", "s">>
BundleJs == <<"a", ".", "j", "s">>
ChunkJs == <<"b", ".", "j", "s">>
JsMap == <<"a", ".", "j", "s", ".", "m">>
CssWord == <<"c", "s", "s">>
LogoPng == <<"l", ".", "p", "n", "g">>
ThemeLiquid == <<"t", ".", "l", "i", "q", "u", "i", "d">>
NoteTxt == <<"o", ".", "t", "x", "t">>

DistNames == {BundleCss, ChunkCss, BundleJs, LogoPng}
BuildNames == DistNames \cup {ChunkJs, JsMap, CssWord}

\* String.prototype.endsWith
endsWith(s, suffix) ==
    /\ Len(s) >= Len(suffix)
    /\ SubSeq(s, Len(s) - Len(suffix) + 1, Len(s)) = suffix

\* ------------------------------------------------------------------ trees
NoData == <<"", "", <<>>>>

NoFiles == [q \in {} |-> NoData]

Absent == [exists |-> FALSE, dirs |-> {}, files |-> NoFiles]

Tree(dirs, files) == [exists |-> TRUE, dirs |-> dirs, files |-> files]

Overlay(f, g) ==
    [q \in (DOMAIN f) \cup (DOMAIN g) |-> IF q \in DOMAIN g THEN g[q] ELSE f[q]]

Restrict(f, S) == [q \in S |-> f[q]]

\* fs.existsSync
existsSync(tree) == tree.exists

\* Mutant: fs.ensureDir in place of fs.emptyDir, what is there stays.
emptyDir_ensureOnly(tree) == IF tree.exists THEN tree ELSE Tree({}, NoFiles)

\* Mutant: only the files directly in the directory are removed.
emptyDir_notRecursive(tree) ==
    IF tree.exists
    THEN Tree(tree.dirs, Restrict(tree.files, {q \in DOMAIN tree.files : q[1] # ""}))
    ELSE Tree({}, NoFiles)

\* fs.emptyDir: the directory is created when it is absent, else every item
\* in it is removed.
emptyDir(tree) == Tree({}, NoFiles)

\* Mutant: the copy does not descend, files in subdirectories are left out.
copyDir_shallow(src, dest) ==
    Tree(dest.dirs \cup src.dirs,
         Overlay(dest.files, Restrict(src.files, {q \in DOMAIN src.files : q[1] = ""})))

\* fs.copy of a directory: merges src into dest, overwriting files.
copyDir(src, dest) ==
    Tree(dest.dirs \cup src.dirs, Overlay(dest.files, src.files))

\* Mutant: fs.emptyDir in place of fs.ensureDir, the files in d are removed.
ensureDir_empties(tree, d) ==
    Tree(tree.dirs \cup {d}, Restrict(tree.files, {q \in DOMAIN tree.files : q[1] # d}))

\* fs.ensureDir of a direct subdirectory of the tree.
ensureDir(tree, d) == Tree(tree.dirs \cup {d}, tree.files)

\* Mutant: overwrite is off, a file that is there is kept.
copyFile_noOverwrite(tree, d, name, data) ==
    Tree(tree.dirs \cup ({d} \ {""}),
         Overlay([q \in {<<d, name>>} |-> data], tree.files))

\* fs.copy of one file to <<d, name>> in the tree (parent directory created).
copyFile(tree, d, name, data) ==
    Tree(tree.dirs \cup ({d} \ {""}), Overlay(tree.files, [q \in {<<d, name>>} |-> data]))

\* Mutant: no renaming, every entry keeps its name.
targetName_keepsName(file) == file

\* Mutant: String.prototype.includes in place of endsWith.
targetName_includes(file) ==
    LET includes(s, part) ==
            \E i \in 1..(Len(s) - Len(part) + 1) : SubSeq(s, i, i + Len(part) - 1) = part
    IN IF includes(file, CssSuffix) THEN IndexCss
       ELSE IF includes(file, JsSuffix) THEN IndexJs
       ELSE file

\* The name under theme/assets a dist/assets entry is copied to.
targetName(file) ==
    IF endsWith(file, CssSuffix) THEN IndexCss
    ELSE IF endsWith(file, JsSuffix) THEN IndexJs
    ELSE file

\* ---------------------------------------------------------------- archive
NoArchive == [exists |-> FALSE, entries |-> {}, complete |-> FALSE]

FileEntry(q, data) == [name |-> q, type |-> "file", data |-> data]
DirEntry(d) == [name |-> <<d, <<>>>>, type |-> "directory", data |-> NoData]

\* Mutant: the walk does not descend into subdirectories.
directory_topLevel(tree) ==
    {FileEntry(q, tree.files[q]) : q \in {r \in DOMAIN tree.files : r[1] = ""}}
        \cup {DirEntry(d) : d \in tree.dirs}

\* archive.directory(dir, false): every file and every subdirectory under
\* dir, named relative to dir.
directory(tree) ==
    {FileEntry(q, tree.files[q]) : q \in DOMAIN tree.files}
        \cup {DirEntry(d) : d \in tree.dirs}

\* ----------------------------------------------------------------- inputs
\* The content of the file at <<d, name>> of the tree called origin.
Data(origin, q) == <<origin, q[1], q[2]>>

TemplateFiles(S) == [q \in S |-> Data("theme-src", q)]

TemplateChoices ==
    { Absent,
      Tree({"layout"}, TemplateFiles({<<"layout", ThemeLiquid>>})),
      Tree({"layout", "assets"}, TemplateFiles({<<"layout", ThemeLiquid>>})),
      Tree({"layout", "assets"},
           TemplateFiles({<<"layout", ThemeLiquid>>, <<"assets", LogoPng>>,
                          <<"assets", NoteTxt>>})) }

DistFiles(S) == [n \in S |-> Data("dist", <<"", n>>)]

DistChoices ==
    {Absent} \cup
    { Tree({}, DistFiles(S)) : S \in {X \in SUBSET DistNames : Cardinality(X) <= MaxDistFiles} }

BuildChoices ==
    {Absent} \cup
    { Tree({}, DistFiles(S)) : S \in {X \in SUBSET BuildNames : Cardinality(X) <= MaxDistFiles} }

OldFiles(S) == [q \in S |-> Data("old", q)]

PriorThemeChoices ==
    { Absent,
      Tree({"assets"}, OldFiles({<<"", NoteTxt>>, <<"assets", IndexCss>>})) }

PriorZipChoices ==
    { NoArchive,
      [exists |-> TRUE, entries |-> {FileEntry(<<"", NoteTxt>>, Data("old", <<"", NoteTxt>>))},
       complete |-> TRUE] }

Perms(S) ==
    {s \in [1..Cardinality(S) -> S] : \A i, j \in 1..Cardinality(S) : i # j => s[i] # s[j]}

\* ------------------------------------------------------------------ state
VARIABLES
    themeSrc,     \* theme-src, the template tree
    dist,         \* dist/assets, the build output
    theme,        \* theme, the staged output
    zip,          \* theme.zip
    pc,           \* per run: the position in buildTheme
    distFiles,    \* per run: the entries of distFiles not yet processed
    output,       \* per run: the state of the write stream
    stdout,       \* per run: lines written by console.log
    stderr,       \* per run: lines written to the error channel
    exitCode,     \* per run: the exit status, -1 while running
    themeBefore,  \* per run: theme when the run started
    zipBefore,    \* per run: theme.zip when the run started
    staged,       \* per run: theme when the template copy completed
    normalized,   \* per run: theme when the asset loop completed
    done,         \* per run: the stages that completed
    raised,       \* per run: the errors raised
    handled,      \* per run: the catch block of buildTheme ran
    copied,       \* per run: the copies of the loop, <<entry, target name>>
    runs,         \* per invocation: how many times the caller has run it
    prev,         \* per invocation: done, staged, normalized of the run before
    issued,       \* per run: the awaited calls made so far
    page          \* the ProductsPage component and its fetches

fsVars == <<themeSrc, dist, theme, zip>>
runVars == <<pc, distFiles, output, stdout, stderr, exitCode>>
histVars == <<themeBefore, zipBefore, staged, normalized, done, raised, handled, copied>>
rerunVars == <<runs, prev>>
pipelineVars == <<fsVars, runVars, histVars, rerunVars, issued>>
vars == <<pipelineVars, page>>

NoRun == [done |-> {}, staged |-> Absent, normalized |-> Absent]

\* ProductsPage when it is first rendered: useState([]), useState(true),
\* useState(null); no category has been given to the effect and no call of
\* getProducts has been made. products and error are named by the category
\* of the call they come from.
FirstRender ==
    [category |-> "none", products |-> "none", loading |-> TRUE, error |-> "none",
     fetches |-> {}, calls |-> 0, outcome |-> <<"none", "none">>]

\* No run has taken a step.
NotStarted ==
    /\ pc = [p \in Procs |-> "Start"]
    /\ distFiles = [p \in Procs |-> <<>>]
    /\ output = [p \in Procs |-> "none"]
    /\ stdout = [p \in Procs |-> <<>>]
    /\ stderr = [p \in Procs |-> <<>>]
    /\ exitCode = [p \in Procs |-> -1]
    /\ themeBefore = [p \in Procs |-> Absent]
    /\ zipBefore = [p \in Procs |-> NoArchive]
    /\ staged = [p \in Procs |-> Absent]
    /\ normalized = [p \in Procs |-> Absent]
    /\ done = [p \in Procs |-> {}]
    /\ raised = [p \in Procs |-> {}]
    /\ handled = [p \in Procs |-> FALSE]
    /\ copied = [p \in Procs |-> <<>>]
    /\ runs = [p \in Procs |-> 1]
    /\ prev = [p \in Procs |-> NoRun]
    /\ issued = [p \in Procs |-> {}]
    /\ page = FirstRender

Init ==
    /\ themeSrc \in TemplateChoices
    /\ dist \in DistChoices
    /\ theme \in PriorThemeChoices
    /\ zip \in PriorZipChoices
    /\ NotStarted

\* Builds of several chunks and of entries of other kinds.
InitBuilds ==
    /\ themeSrc \in TemplateChoices
    /\ dist \in BuildChoices
    /\ theme \in PriorThemeChoices
    /\ zip \in PriorZipChoices
    /\ NotStarted

Set(f, p, v) == [f EXCEPT ![p] = v]

\* ------------------------------------------------------ ways a run ends
\* process.exit(code) after console.error(line)
exit(p, line, code) ==
    /\ pc' = Set(pc, p, "Exited")
    /\ stderr' = Set(stderr, p, Append(stderr[p], line))
    /\ exitCode' = Set(exitCode, p, code)

\* Mutant: the handler removes theme.zip.
catch_removesArchive(p, kind) ==
    /\ exit(p, "Error building theme:", 1)
    /\ raised' = Set(raised, p, raised[p] \cup {kind})
    /\ handled' = Set(handled, p, TRUE)
    /\ zip' = NoArchive

\* Mutant: the handler logs and the process ends with status 0.
catch_exitsZero(p, kind) ==
    /\ exit(p, "Error building theme:", 0)
    /\ raised' = Set(raised, p, raised[p] \cup {kind})
    /\ handled' = Set(handled, p, TRUE)
    /\ UNCHANGED zip

\* catch (err) { console.error('Error building theme:', err); process.exit(1) }
\* The handler leaves theme.zip as it is.
catch(p, kind) ==
    /\ exit(p, "Error building theme:", 1)
    /\ raised' = Set(raised, p, raised[p] \cup {kind})
    /\ handled' = Set(handled, p, TRUE)
    /\ UNCHANGED zip

\* An exception thrown from an event listener, or an 'error' event without a
\* listener: no catch block is on the stack, the runtime reports the
\* exception and the process exits with status 1.
uncaught(p, kind) ==
    /\ exit(p, "Uncaught exception", 1)
    /\ raised' = Set(raised, p, raised[p] \cup {kind})
    /\ UNCHANGED handled

\* The step went through: nothing is raised and the run goes on.
ok(p) == UNCHANGED <<stderr, exitCode, raised, handled>>

\* What a tree operation that failed part-way may have got done of `tree`.
Partial(tree) ==
    { Tree(x[1], Restrict(tree.files, x[2])) :
        x \in { y \in (SUBSET tree.dirs) \X (SUBSET DOMAIN tree.files) :
                  \A q \in y[2] : q[1] \in y[1] \cup {""} } }

\* ------------------------------------------------------------- buildTheme
\* Mutant: a lock on theme, a run starts only while no other run is going on.
EmptyTheme_locked(p) ==
    /\ pc[p] = "Start"
    /\ \A other \in Procs \ {p} : pc[other] \in {"Start", "Exited"}
    /\ themeBefore' = Set(themeBefore, p, theme)
    /\ zipBefore' = Set(zipBefore, p, zip)
    /\ theme' = emptyDir(theme)
    /\ pc' = Set(pc, p, "CheckSrc")
    /\ ok(p)
    /\ UNCHANGED zip
    /\ UNCHANGED <<themeSrc, dist, distFiles, output, stdout, staged, normalized, done>>
    /\ UNCHANGED <<rerunVars, copied, issued, page>>

\* await fs.emptyDir(theme)
EmptyTheme(p) ==
    /\ pc[p] = "Start"
    /\ themeBefore' = Set(themeBefore, p, theme)
    /\ zipBefore' = Set(zipBefore, p, zip)
    /\ \/ /\ theme' = emptyDir(theme)
          /\ pc' = Set(pc, p, "CheckSrc")
          /\ ok(p)
          /\ UNCHANGED zip
       \/ /\ theme' \in (IF theme.exists THEN Partial(theme) ELSE {theme})
          /\ catch(p, "CopyError")
    /\ UNCHANGED <<themeSrc, dist, distFiles, output, stdout, staged, normalized, done>>
    /\ UNCHANGED <<rerunVars, copied, issued, page>>

\* Mutant: the diagnostic is logged without process.exit, the run goes on.
CheckThemeSrc_logsOnly(p) ==
    /\ pc[p] = "CheckSrc"
    /\ pc' = Set(pc, p, "CopySrc")
    /\ IF existsSync(themeSrc)
       THEN UNCHANGED <<stderr, raised>>
       ELSE /\ stderr' = Set(stderr, p, Append(stderr[p], "theme-src directory not found"))
            /\ raised' = Set(raised, p, raised[p] \cup {"MissingInput"})
    /\ UNCHANGED <<fsVars, distFiles, output, stdout, handled, exitCode,
                   themeBefore, zipBefore, staged, normalized, done>>
    /\ UNCHANGED <<rerunVars, copied, issued, page>>

\* if (!fs.existsSync(theme-src)) { console.error(...); process.exit(1) }
CheckThemeSrc(p) ==
    /\ pc[p] = "CheckSrc"
    /\ IF existsSync(themeSrc)
       THEN /\ pc' = Set(pc, p, "CopySrc")
            /\ UNCHANGED <<stderr, exitCode, raised>>
       ELSE /\ exit(p, "theme-src directory not found", 1)
            /\ raised' = Set(raised, p, raised[p] \cup {"MissingInput"})
    /\ UNCHANGED <<fsVars, distFiles, output, stdout, handled,
                   themeBefore, zipBefore, staged, normalized, done>>
    /\ UNCHANGED <<rerunVars, copied, issued, page>>

\* await fs.copy(theme-src, theme)
CopyThemeSrc(p) ==
    /\ pc[p] = "CopySrc"
    /\ \/ /\ theme' = copyDir(themeSrc, theme)
          /\ staged' = Set(staged, p, theme')
          /\ done' = Set(done, p, done[p] \cup {"Staging"})
          /\ pc' = Set(pc, p, "EnsureAssets")
          /\ ok(p)
          /\ UNCHANGED zip
       \/ /\ \E part \in Partial(themeSrc) : theme' = copyDir(part, theme)
          /\ catch(p, "CopyError")
          /\ UNCHANGED <<staged, done>>
    /\ UNCHANGED <<themeSrc, dist, distFiles, output, stdout,
                   themeBefore, zipBefore, normalized>>
    /\ UNCHANGED <<rerunVars, copied, issued, page>>

\* await fs.ensureDir(theme/assets)
EnsureAssets(p) ==
    /\ pc[p] = "EnsureAssets"
    /\ \/ /\ theme' = ensureDir(theme, "assets")
          /\ pc' = Set(pc, p, "ReadDist")
          /\ ok(p)
          /\ UNCHANGED zip
       \/ /\ UNCHANGED theme
          /\ catch(p, "CopyError")
    /\ UNCHANGED <<themeSrc, dist, distFiles, output, stdout,
                   themeBefore, zipBefore, staged, normalized, done>>
    /\ UNCHANGED <<rerunVars, copied, issued, page>>

\* Mutant: the loop is left after one pass, control reaches line 52 with
\* entries still to copy.
loop_leavesEarly(p, rest, tree) ==
    /\ pc' = Set(pc, p, "Archive")
    /\ IF rest = <<>>
       THEN /\ normalized' = Set(normalized, p, tree)
            /\ done' = Set(done, p, done[p] \cup {"Normalizing"})
       ELSE UNCHANGED <<normalized, done>>

\* for (const file of distFiles): with entries left the loop goes on, else
\* control reaches the archive code of line 52.
loop(p, rest, tree) ==
    IF rest = <<>>
    THEN /\ pc' = Set(pc, p, "Archive")
         /\ normalized' = Set(normalized, p, tree)
         /\ done' = Set(done, p, done[p] \cup {"Normalizing"})
    ELSE /\ pc' = Set(pc, p, "CopyAssets")
         /\ UNCHANGED <<normalized, done>>

\* fs.readdir: the names of the entries of the directory, in any order.
readdir(tree) == Perms(DOMAIN tree.files)

\* const distFiles = await fs.readdir(dist/assets)
ReadDist(p) ==
    /\ pc[p] = "ReadDist"
    /\ IF existsSync(dist)
       THEN /\ \E order \in readdir(dist) :
                 /\ distFiles' = Set(distFiles, p, order)
                 /\ loop(p, order, theme)
            /\ ok(p)
            /\ UNCHANGED zip
       ELSE /\ catch(p, "MissingInput")
            /\ UNCHANGED <<distFiles, normalized, done>>
    /\ UNCHANGED <<themeSrc, dist, theme, output, stdout, themeBefore, zipBefore, staged>>
    /\ UNCHANGED <<rerunVars, copied, issued, page>>

\* Mutant: fs.move in place of fs.copy, the source is gone.
copySource_moves(tree, name) ==
    Tree(tree.dirs, Restrict(tree.files, (DOMAIN tree.files) \ {name}))

\* fs.copy leaves the directory it copies the entry `name` from as it is.
copySource(tree, name) == tree

\* One iteration of the loop: await fs.copy(sourcePath, target)
CopyAsset(p) ==
    /\ pc[p] = "CopyAssets"
    /\ LET file == Head(distFiles[p])
       IN \/ /\ theme' = copyFile(theme, "assets", targetName(file), dist.files[file])
             /\ dist' = copySource(dist, file)
             /\ copied' = Set(copied, p, Append(copied[p], <<file, targetName(file)>>))
             /\ distFiles' = Set(distFiles, p, Tail(distFiles[p]))
             /\ loop(p, Tail(distFiles[p]), theme')
             /\ ok(p)
             /\ UNCHANGED zip
          \/ /\ UNCHANGED <<theme, dist, copied, distFiles, normalized, done>>
             /\ catch(p, "CopyError")
    /\ UNCHANGED <<themeSrc, output, stdout, themeBefore, zipBefore, staged>>
    /\ UNCHANGED <<rerunVars, issued, page>>

\* Mutant: flags 'a', the file is opened for appending.
createWriteStream_appends(file) ==
    [exists |-> TRUE, entries |-> file.entries, complete |-> FALSE]

\* fs.createWriteStream(path): the file is created, or truncated.
createWriteStream(file) == [exists |-> TRUE, entries |-> {}, complete |-> FALSE]

\* const output = fs.createWriteStream(theme.zip); output.on('close', ...);
\* archive.on('error', ...). A failure to open the file is an 'error' event
\* of output, which has no listener.
CreateWriteStream(p) ==
    /\ pc[p] = "Archive"
    /\ \/ /\ zip' = createWriteStream(zip)
          /\ output' = Set(output, p, "open")
          /\ pc' = Set(pc, p, "Finalize")
          /\ ok(p)
       \/ /\ UNCHANGED zip
          /\ output' = Set(output, p, "errored")
          /\ uncaught(p, "ArchiveError")
    /\ UNCHANGED <<themeSrc, dist, theme, distFiles, stdout,
                   themeBefore, zipBefore, staged, normalized, done>>
    /\ UNCHANGED <<rerunVars, copied, issued, page>>

SuccessLine == "Theme package created successfully!"

\* output.on('close', () => console.log('Theme package created successfully!'))
onClose(p) == stdout' = Set(stdout, p, Append(stdout[p], SuccessLine))

\* Mutant: the success message is logged after the await of finalize().
finalized_logs(p) ==
    /\ pc' = Set(pc, p, "Returned")
    /\ onClose(p)

\* The promise of archive.finalize() is resolved: nothing follows the await,
\* buildTheme returns.
finalized(p) ==
    /\ pc' = Set(pc, p, "Returned")
    /\ UNCHANGED stdout

\* archive.pipe(output); archive.directory(theme, false);
\* await archive.finalize(): the entries are read and written to output, and
\* the promise resolves when the archive has been read to its end; an 'error'
\* of the archive makes the listener of line 61 throw; of what had been
\* written by then the two extremes are taken, nothing and every entry.
\* What is written is added to what the file holds since it was opened.
Finalize(p) ==
    /\ pc[p] = "Finalize"
    /\ \/ /\ zip' = [zip EXCEPT !.entries = @ \cup directory(theme)]
          /\ output' = Set(output, p, "ending")
          /\ finalized(p)
          /\ ok(p)
       \/ /\ \E part \in {{}, directory(theme)} : zip' = [zip EXCEPT !.entries = @ \cup part]
          /\ output' = Set(output, p, "errored")
          /\ uncaught(p, "ArchiveError")
          /\ UNCHANGED stdout
    /\ UNCHANGED <<themeSrc, dist, theme, distFiles,
                   themeBefore, zipBefore, staged, normalized, done>>
    /\ UNCHANGED <<rerunVars, copied, issued, page>>

\* Mutant: the listener of 'close' removes the staging directory.
OutputClose_cleansUp(p) ==
    /\ pc[p] = "Returned"
    /\ output[p] = "ending"
    /\ zip' = [zip EXCEPT !.complete = TRUE]
    /\ output' = Set(output, p, "closed")
    /\ onClose(p)
    /\ done' = Set(done, p, done[p] \cup {"Archiving"})
    /\ theme' = Absent
    /\ ok(p)
    /\ UNCHANGED <<pc, themeSrc, dist, distFiles, themeBefore, zipBefore, staged, normalized>>
    /\ UNCHANGED <<rerunVars, copied, issued, page>>

\* Mutant: the stream's error has a listener that logs it, 'close' follows
\* the error and the process ends with status 1.
OutputClose_closeAfterError(p) ==
    /\ pc[p] = "Returned"
    /\ output[p] = "ending"
    /\ output' = Set(output, p, "errored")
    /\ onClose(p)
    /\ exit(p, "Error building theme:", 1)
    /\ raised' = Set(raised, p, raised[p] \cup {"ArchiveError"})
    /\ UNCHANGED <<zip, done, handled>>
    /\ UNCHANGED <<themeSrc, dist, theme, distFiles,
                   themeBefore, zipBefore, staged, normalized>>
    /\ UNCHANGED <<rerunVars, copied, issued, page>>

\* The write stream writes out what it was given and closes the file, which
\* emits 'close'; or it fails, which is an 'error' event without a listener.
OutputClose(p) ==
    /\ pc[p] = "Returned"
    /\ output[p] = "ending"
    /\ \/ /\ zip' = [zip EXCEPT !.complete = TRUE]
          /\ output' = Set(output, p, "closed")
          /\ onClose(p)
          /\ done' = Set(done, p, done[p] \cup {"Archiving"})
          /\ UNCHANGED pc
          /\ ok(p)
       \/ /\ UNCHANGED <<zip, stdout, done>>
          /\ output' = Set(output, p, "errored")
          /\ uncaught(p, "ArchiveError")
    /\ UNCHANGED <<themeSrc, dist, theme, distFiles,
                   themeBefore, zipBefore, staged, normalized>>
    /\ UNCHANGED <<rerunVars, copied, issued, page>>

\* Mutant: the closed stream still counts as pending work, the process stays.
Exit_keepsAlive(p) ==
    /\ pc[p] = "Returned"
    /\ output[p] = "none"
    /\ pc' = Set(pc, p, "Exited")
    /\ exitCode' = Set(exitCode, p, 0)
    /\ UNCHANGED <<fsVars, distFiles, output, stdout, stderr, histVars>>
    /\ UNCHANGED <<rerunVars, issued, page>>

\* buildTheme has returned and nothing is pending: the process ends.
Exit(p) ==
    /\ pc[p] = "Returned"
    /\ output[p] = "closed"
    /\ pc' = Set(pc, p, "Exited")
    /\ exitCode' = Set(exitCode, p, 0)
    /\ UNCHANGED <<fsVars, distFiles, output, stdout, stderr, histVars>>
    /\ UNCHANGED <<rerunVars, issued, page>>

Step(p) ==
    \/ EmptyTheme(p)
    \/ CheckThemeSrc(p)
    \/ CopyThemeSrc(p)
    \/ EnsureAssets(p)
    \/ ReadDist(p)
    \/ CopyAsset(p)
    \/ CreateWriteStream(p)
    \/ Finalize(p)
    \/ OutputClose(p)
    \/ Exit(p)

\* One invocation of the pipeline.
Next == Step(1)

Spec == Init /\ [][Next]_vars

SpecBuilds == InitBuilds /\ [][Next]_vars

\* Every operation the run waits for completes or fails, and the event loop
\* then runs what waits for it: the run takes its next step as long as it
\* has one.
SpecFair == Init /\ [][Next]_vars /\ WF_vars(Step(1))

\* Two invocations at the same time, on the same theme and theme.zip: a
\* template of one file, a build of a stylesheet and an image, a clean
\* checkout.
InitTwo ==
    /\ themeSrc = Tree({"layout"}, TemplateFiles({<<"layout", ThemeLiquid>>}))
    /\ dist = Tree({}, DistFiles({BundleCss, LogoPng}))
    /\ theme = Absent
    /\ zip = NoArchive
    /\ NotStarted

NextTwo == Step(1) \/ Step(2)

SpecTwo == InitTwo /\ [][NextTwo]_vars

\* The awaited call of the statement the run is at.
NoArg == <<>>

Awaited(p) == pc[p] \in {"Start", "CopySrc", "EnsureAssets", "ReadDist", "CopyAssets"}

opAt(p) ==
    CASE pc[p] = "Start" -> <<"emptyDir", NoArg>>
      [] pc[p] = "CopySrc" -> <<"copyDir", NoArg>>
      [] pc[p] = "EnsureAssets" -> <<"ensureDir", NoArg>>
      [] pc[p] = "ReadDist" -> <<"readdir", NoArg>>
      [] pc[p] = "CopyAssets" -> <<"copy", Head(distFiles[p])>>

\* Mutant: the copies of the loop are not awaited, each pass starts its copy
\* while those of the passes before are still running.
Issue_notAwaited(p) ==
    /\ Awaited(p)
    /\ \E op \in IF pc[p] = "CopyAssets"
                 THEN {<<"copy", distFiles[p][i]>> : i \in 1..Len(distFiles[p])}
                 ELSE {opAt(p)} :
           /\ op \notin issued[p]
           /\ issued' = Set(issued, p, issued[p] \cup {op})
    /\ UNCHANGED <<fsVars, runVars, histVars, rerunVars, page>>

\* The run makes the call of the await expression it is at: the operation
\* starts, and the run is suspended until it has completed or failed.
Issue(p) ==
    /\ Awaited(p)
    /\ opAt(p) \notin issued[p]
    /\ issued' = Set(issued, p, issued[p] \cup {opAt(p)})
    /\ UNCHANGED <<fsVars, runVars, histVars, rerunVars, page>>

\* The operation awaited completes or fails and the run goes on from there;
\* the statements that await nothing run as they are reached.
Resume(p) ==
    /\ Awaited(p) => opAt(p) \in issued[p]
    /\ Step(p)

NextIO == Issue(1) \/ Resume(1)

\* One invocation, with the start of each awaited operation as a step of
\* its own.
SpecIO == Init /\ [][NextIO]_vars

\* A new process of the script starts once the previous one has exited: only
\* the file system carries over.
restart(p) ==
    /\ pc[p] = "Exited"
    /\ runs[p] < MaxRuns
    /\ runs' = Set(runs, p, runs[p] + 1)
    /\ prev' = Set(prev, p, [done |-> done[p], staged |-> staged[p],
                             normalized |-> normalized[p]])
    /\ pc' = Set(pc, p, "Start")
    /\ distFiles' = Set(distFiles, p, <<>>)
    /\ output' = Set(output, p, "none")
    /\ stdout' = Set(stdout, p, <<>>)
    /\ stderr' = Set(stderr, p, <<>>)
    /\ exitCode' = Set(exitCode, p, -1)
    /\ themeBefore' = Set(themeBefore, p, Absent)
    /\ zipBefore' = Set(zipBefore, p, NoArchive)
    /\ staged' = Set(staged, p, Absent)
    /\ normalized' = Set(normalized, p, Absent)
    /\ done' = Set(done, p, {})
    /\ raised' = Set(raised, p, {})
    /\ handled' = Set(handled, p, FALSE)
    /\ copied' = Set(copied, p, <<>>)
    /\ issued' = Set(issued, p, {})
    /\ UNCHANGED page

\* The caller runs the pipeline again: the previous run leaves theme and
\* theme.zip.
Rerun(p) ==
    /\ restart(p)
    /\ UNCHANGED fsVars

NextRerun == Step(1) \/ Rerun(1)

SpecRerun == Init /\ [][NextRerun]_vars

\* The outputs of the bundler after a change of the sources: one file more
\* or one file less than the build before.
builds(tree) ==
    {d \in DistChoices :
        /\ d.exists
        /\ LET old == DOMAIN tree.files
               new == DOMAIN d.files
           IN Cardinality((old \ new) \cup (new \ old)) = 1}

\* The caller builds the bundle again before it runs the pipeline the second
\* time.
Rebuild(p) ==
    /\ restart(p)
    /\ runs[p] = 1
    /\ dist' \in builds(dist)
    /\ UNCHANGED <<themeSrc, theme, zip>>

NextRebuild == Step(1) \/ Rerun(1) \/ Rebuild(1)

\* The first run starts on a clean checkout: what later runs find in theme
\* and theme.zip is what the runs before them left.
InitRebuild == Init /\ theme = Absent /\ zip = NoArchive

SpecRebuild == InitRebuild /\ [][NextRebuild]_vars

\* ------------------------------------------------------------ ProductsPage
\* The values of the route parameter category.
Categories == {"rods", "reels", "nets"}

\* What the request of shopifyClient comes back with: the collection, an
\* Error, or a thrown value that is not an Error.
Responses == {"data", "Error", "thrown"}

\* getProducts(collectionHandle), given what the request comes back with:
\* the products of the collection; a new Error thrown; or the empty list.
getProducts(collectionHandle, response) ==
    CASE response = "data" -> [ok |-> TRUE, value |-> collectionHandle]
      [] response = "Error" -> [ok |-> FALSE, value |-> collectionHandle]
      [] response = "thrown" -> [ok |-> TRUE, value |-> "none"]

\* The route changes to another category: the component renders again and
\* the effect of lines 44-61 runs, setLoading(true), setError(null) and the
\* call of getProducts(category), which is left in flight.
Navigate(c) ==
    /\ c # page.category
    /\ page.calls < MaxCalls
    /\ page' = [page EXCEPT !.category = c,
                            !.loading = TRUE,
                            !.error = "none",
                            !.calls = @ + 1,
                            !.fetches = @ \cup {[id |-> page.calls + 1, category |-> c]},
                            !.outcome = <<"none", "none">>]
    /\ UNCHANGED pipelineVars

\* A call in flight settles and fetchProducts goes on after its await:
\* setProducts(fetchedProducts), or setError(err.message) in the catch block,
\* then setLoading(false) in the finally block. outcome keeps what the call
\* made last has settled with.
Settle(fetch, response) ==
    /\ fetch \in page.fetches
    /\ LET result == getProducts(fetch.category, response)
       IN page' = [page EXCEPT !.products = IF result.ok THEN result.value ELSE @,
                               !.error = IF result.ok THEN @ ELSE result.value,
                               !.loading = FALSE,
                               !.fetches = @ \ {fetch},
                               !.outcome = IF fetch.id = page.calls
                                           THEN <<IF result.ok THEN "ok" ELSE "error",
                                                  result.value>>
                                           ELSE @]
    /\ UNCHANGED pipelineVars

NextPage ==
    \/ \E c \in Categories : Navigate(c)
    \/ \E id \in 1..MaxCalls, c \in Categories, response \in Responses :
           Settle([id |-> id, category |-> c], response)

\* The page alone; the pipeline is not run.
InitPage ==
    /\ themeSrc = Absent
    /\ dist = Absent
    /\ theme = Absent
    /\ zip = NoArchive
    /\ NotStarted

SpecPage == InitPage /\ [][NextPage]_vars

\* =================================================================== claims
Stages == {"Staging", "Normalizing", "Archiving"}

Names(tree, d) == {q[2] : q \in {r \in DOMAIN tree.files : r[1] = d}}

\* C1 - if theme-src does not exist, the run exits non-zero and a theme
\* directory that existed before the run has the contents it had.
C1_MissingTemplateLeavesTheme ==
    \A p \in Procs :
        (pc[p] = "Exited" /\ ~existsSync(themeSrc) /\ raised[p] = {"MissingInput"}
            /\ themeBefore[p].exists)
            => (exitCode[p] # 0 /\ theme = themeBefore[p])

\* C2 - the success message is written only once the write stream of the
\* archive has closed.
C2_SuccessOnlyAfterClose ==
    \A p \in Procs :
        (\E i \in DOMAIN stdout[p] : stdout[p][i] = SuccessLine) => output[p] = "closed"

C2_Witness == \E p \in Procs : stdout[p] = <<SuccessLine>> /\ pc[p] = "Returned"

\* C3 - buildTheme does not return before the write stream of the archive
\* has closed.
C3_ReturnsOnlyAfterClose ==
    \A p \in Procs : pc[p] = "Returned" => output[p] = "closed"

FileEntries(tree) == {FileEntry(q, tree.files[q]) : q \in DOMAIN tree.files}

\* C4 - after a successful run the entries of the archive are the files of
\* the staged directory after normalization, at their relative paths, and
\* nothing else.
C4_ArchiveIsStagedFiles ==
    \A p \in Procs : (pc[p] = "Exited" /\ exitCode[p] = 0) => zip.entries = FileEntries(normalized[p])

\* C4, amended - after a successful run the file entries of the archive are
\* the files of the staged directory after normalization, at their relative
\* paths; its other entries are one directory entry for each subdirectory of
\* the staged directory, and the archive is complete.
C4_ArchiveIsStagedTree ==
    \A p \in Procs :
        (pc[p] = "Exited" /\ exitCode[p] = 0) =>
            /\ zip.exists /\ zip.complete
            /\ {e \in zip.entries : e.type = "file"} = FileEntries(normalized[p])
            /\ {e \in zip.entries : e.type # "file"}
                   = {[name |-> <<d, <<>>>>, type |-> "directory", data |-> NoData] :
                          d \in normalized[p].dirs}

C4_Witness ==
    \E p \in Procs :
        /\ pc[p] = "Exited" /\ exitCode[p] = 0
        /\ Names(normalized[p], "layout") # {}
        /\ IndexCss \in Names(normalized[p], "assets")
        /\ \E e \in zip.entries : e.type = "directory"

IsCss(n) == endsWith(n, CssSuffix)
IsJs(n) == ~IsCss(n) /\ endsWith(n, JsSuffix)
CssOf(d) == {n \in DOMAIN d.files : IsCss(n)}
JsOf(d) == {n \in DOMAIN d.files : IsJs(n)}
OthersOf(d) == (DOMAIN d.files) \ (CssOf(d) \cup JsOf(d))

OneCssOneJs(d) == d.exists /\ Cardinality(CssOf(d)) = 1 /\ Cardinality(JsOf(d)) = 1

\* The normalized assets hold the contents of their sources.
AssetsMatchSources(tree) ==
    /\ \A n \in CssOf(dist) : tree.files[<<"assets", IndexCss>>] = dist.files[n]
    /\ \A n \in JsOf(dist) : tree.files[<<"assets", IndexJs>>] = dist.files[n]
    /\ \A n \in OthersOf(dist) : tree.files[<<"assets", n>>] = dist.files[n]

\* C5 - with exactly one .css and one .js entry and N others in dist/assets,
\* theme/assets holds after normalization exactly index.css, index.js and
\* the N others under their names, each with the content of its source.
C5_AssetsExactlyNormalized ==
    \A p \in Procs :
        ("Normalizing" \in done[p] /\ OneCssOneJs(dist)) =>
            /\ Names(normalized[p], "assets") = {IndexCss, IndexJs} \cup OthersOf(dist)
            /\ AssetsMatchSources(normalized[p])

\* C5, amended - ... theme/assets holds after normalization index.css,
\* index.js and the N others under their names, each with the content of its
\* source, and besides them exactly the files of the assets folder of
\* theme-src with other names, with their template contents.
C5_AssetsNormalizedOverTemplate ==
    \A p \in Procs :
        ("Normalizing" \in done[p] /\ OneCssOneJs(dist)) =>
            LET targets == {IndexCss, IndexJs} \cup OthersOf(dist)
            IN /\ Names(normalized[p], "assets") = targets \cup Names(themeSrc, "assets")
               /\ AssetsMatchSources(normalized[p])
               /\ \A n \in Names(themeSrc, "assets") \ targets :
                      normalized[p].files[<<"assets", n>>] = themeSrc.files[<<"assets", n>>]

C5_Witness ==
    \E p \in Procs :
        /\ "Normalizing" \in done[p] /\ OneCssOneJs(dist)
        /\ OthersOf(dist) # {}
        /\ Names(themeSrc, "assets") \ OthersOf(dist) # {}
        /\ Names(themeSrc, "assets") \cap OthersOf(dist) # {}

\* C6 - a run that fails before the archive code is reached leaves theme.zip
\* as it was: absent if it was absent, with its content if it was there.
C6_EarlyFailureLeavesArchive ==
    \A p \in Procs :
        (pc[p] = "Exited" /\ "Normalizing" \notin done[p]) =>
            (raised[p] # {} /\ zip = zipBefore[p])

C6_Witness ==
    \E p \in Procs :
        /\ pc[p] = "Exited" /\ "Staging" \in done[p] /\ "Normalizing" \notin done[p]
        /\ raised[p] = {"MissingInput"}
        /\ zipBefore[p].exists /\ zip.exists

\* C7 - the exit status is 0 exactly when staging, normalization and
\* archiving, the close of the stream included, completed without an error,
\* and it is non-zero otherwise.
C7_ExitStatus ==
    \A p \in Procs :
        pc[p] = "Exited" =>
            /\ exitCode[p] \in {0, 1}
            /\ exitCode[p] = 0 <=> (done[p] = Stages /\ raised[p] = {})
            /\ raised[p] # {} => exitCode[p] # 0

C7_Witness ==
    \E p \in Procs :
        /\ pc[p] = "Exited" /\ exitCode[p] = 1
        /\ done[p] = {"Staging", "Normalizing"}
        /\ raised[p] = {"ArchiveError"}
        /\ zip.entries # {} /\ ~zip.complete

\* C8 - every error raised in a run reaches the catch block of buildTheme,
\* which writes the one diagnostic line and ends the process.
C8_EveryErrorReachesHandler ==
    \A p \in Procs :
        (pc[p] = "Exited" /\ raised[p] # {}) =>
            (handled[p] /\ stderr[p] = <<"Error building theme:">>)

\* C9 - when theme-src exists, theme is after staging an exact copy of
\* theme-src: the same directories, the same files with the same contents,
\* and nothing of what was there before.
C9_StagedIsTemplateCopy ==
    \A p \in Procs :
        "Staging" \in done[p] =>
            /\ existsSync(themeSrc)
            /\ staged[p].exists
            /\ staged[p].dirs = themeSrc.dirs
            /\ staged[p].files = themeSrc.files
            /\ pc[p] = "EnsureAssets" => theme = staged[p]

C9_Witness ==
    \E p \in Procs :
        /\ pc[p] = "EnsureAssets"
        /\ DOMAIN themeBefore[p].files # {}
        /\ DOMAIN themeSrc.files # {}

\* C10 - staging is idempotent: when the pipeline is run again on the same
\* output path, staging yields the staged output it yielded before.
C10_StagingIdempotent ==
    \A p \in Procs :
        ("Staging" \in done[p] /\ "Staging" \in prev[p].done) => staged[p] = prev[p].staged

C10_Witness ==
    \E p \in Procs :
        /\ "Staging" \in done[p] /\ "Normalizing" \in prev[p].done
        /\ themeBefore[p] # prev[p].staged

\* The entries of dist/assets in the order the loop has copied them.
Listing(p) == [i \in 1..Len(copied[p]) |-> copied[p][i][1]]

\* The staged tree of a run that starts with no theme directory and whose
\* readdir returns the entries in the given order.
RECURSIVE CopiedOnto(_, _, _)
CopiedOnto(tree, src, order) ==
    IF order = <<>> THEN tree
    ELSE CopiedOnto(copyFile(tree, "assets", targetName(Head(order)), src.files[Head(order)]),
                    src, Tail(order))

CleanRun(template, src, order) ==
    CopiedOnto(ensureDir(copyDir(template, Tree({}, NoFiles)), "assets"), src, order)

\* C11 - whatever earlier runs left in theme and theme.zip, a successful run
\* stages the tree and archives the entries that a run of the same template,
\* build output and listing order produces when started with neither.
C11_ResultIgnoresLeftovers ==
    \A p \in Procs :
        /\ "Normalizing" \in done[p] =>
               /\ normalized[p] = CleanRun(themeSrc, dist, Listing(p))
               /\ theme = normalized[p]
        /\ "Archiving" \in done[p] =>
               zip = [exists |-> TRUE, complete |-> TRUE,
                      entries |-> directory(CleanRun(themeSrc, dist, Listing(p)))]

C11_Witness ==
    /\ runs[1] = 2
    /\ "Archiving" \in done[1]
    /\ "Archiving" \in prev[1].done
    /\ prev[1].normalized # normalized[1]
    /\ themeBefore[1] = prev[1].normalized
    /\ zipBefore[1].entries = directory(prev[1].normalized)
    /\ \E q \in DOMAIN themeBefore[1].files : q \notin DOMAIN theme.files


\* The paths under theme the run has written: the template copy and the copies
\* of the loop.
Written(p) ==
    (DOMAIN themeSrc.files) \cup {<<"assets", copied[p][i][2]>> : i \in 1..Len(copied[p])}

\* The files the previous run staged at paths this run has not written.
Residue(p) == (DOMAIN prev[p].normalized.files) \ Written(p)

TwoRuns(p) ==
    /\ runs[p] >= 2
    /\ "Archiving" \in prev[p].done
    /\ "Archiving" \in done[p]

\* C12 - when the pipeline is run twice, a file the first run staged at a path
\* the second run does not write is still in the second run's staged output
\* and in its archive.
C12_ResidueSurvives ==
    \A p \in Procs :
        TwoRuns(p) =>
            \A q \in Residue(p) :
                /\ q \in DOMAIN theme.files
                /\ theme.files[q] = prev[p].normalized.files[q]
                /\ FileEntry(q, theme.files[q]) \in zip.entries

\* C12 as amended - such a file is in neither: the second run's staged output
\* and archive hold no file at a path the second run has not written.
C12_NoResidue ==
    \A p \in Procs :
        TwoRuns(p) =>
            \A q \in Residue(p) :
                /\ q \notin DOMAIN theme.files
                /\ \A entry \in zip.entries : entry.name # q

C12_Witness ==
    /\ TwoRuns(1)
    /\ Residue(1) # {}
    /\ zip.complete


\* The staged tree holds the whole template and a target for every entry of
\* dist/assets.
FullyPopulated(tree) ==
    /\ \A q \in DOMAIN themeSrc.files :
           q \in DOMAIN tree.files
    /\ \A d \in themeSrc.dirs : d \in tree.dirs
    /\ \A n \in DOMAIN dist.files :
           <<"assets", targetName(n)>> \in DOMAIN tree.files

\* C13 - in every state of a run on an existing template and build output,
\* also after a stage has failed, theme is either absent or fully populated.
C13_AbsentOrFullyPopulated ==
    \A p \in Procs :
        (pc[p] # "Start" /\ themeSrc.exists /\ dist.exists) =>
            (~theme.exists \/ FullyPopulated(theme))


\* C14 - a failure ends the run: the step that raises an error leaves the
\* process exited, and once an error has been raised in a run nothing more is
\* copied, theme.zip is neither opened nor written, nothing is logged to
\* stdout and the run takes no further step.
C14_FailedIsAbsorbing ==
    [][\A p \in Procs :
          /\ raised'[p] # {} => pc'[p] = "Exited"
          /\ raised[p] # {} =>
                 /\ UNCHANGED <<theme, zip, themeSrc, dist>>
                 /\ UNCHANGED <<pc[p], stdout[p], output[p], copied[p], done[p], raised[p]>>]_vars

C14_Witness ==
    /\ pc[1] = "Exited"
    /\ raised[1] = {"CopyError"}
    /\ done[1] = {"Staging"}
    /\ distFiles[1] # <<>>
    /\ copied[1] # <<>>
    /\ ~zip.exists


\* C15 - the stages run in order: a step that copies an entry of dist/assets
\* starts from a state in which the template copy has completed, and a step
\* of a run that opens theme.zip, writes to it or changes the write stream
\* starts from a state in which every entry of dist/assets has been copied.
C15_StagesInOrder ==
    [][\A p \in Procs :
          /\ copied'[p] # copied[p] =>
                 /\ "Staging" \in done[p]
                 /\ \A q \in DOMAIN themeSrc.files :
                        q \in DOMAIN theme.files
          /\ (pc'[p] # pc[p] /\ (output'[p] # output[p] \/ zip' # zip)) =>
                 /\ "Staging" \in done[p]
                 /\ "Normalizing" \in done[p]
                 /\ distFiles[p] = <<>>
                 /\ {copied[p][i][1] : i \in 1..Len(copied[p])} = DOMAIN dist.files]_vars

C15_Witness ==
    /\ done[1] = {"Staging", "Normalizing", "Archiving"}
    /\ Len(copied[1]) >= 2
    /\ zip.complete


\* C16 - no step of a run, whether it goes through or fails, changes
\* theme-src or dist/assets.
C16_InputsUntouched == [][UNCHANGED <<themeSrc, dist>>]_vars

C16_Witness ==
    /\ pc[1] = "Exited"
    /\ "Staging" \in done[1]
    /\ themeSrc.files # NoFiles
    /\ Len(copied[1]) >= 2
    /\ \A i \in 1..Len(copied[1]) : copied[1][i][1] \in DOMAIN dist.files


\* The paths under theme the entries of dist/assets are copied to.
AssetPaths ==
    {<<"assets", IndexCss>> : n \in CssOf(dist)}
        \cup {<<"assets", IndexJs>> : n \in JsOf(dist)}
        \cup {<<"assets", n>> : n \in OthersOf(dist)}

\* The tree is theme-src overlaid with the normalized entries of dist/assets.
StagedIsOverlay(tree) ==
    /\ tree.dirs = themeSrc.dirs \cup {"assets"}
    /\ DOMAIN tree.files = (DOMAIN themeSrc.files) \cup AssetPaths
    /\ \A q \in (DOMAIN themeSrc.files) \ AssetPaths : tree.files[q] = themeSrc.files[q]
    /\ CssOf(dist) # {} =>
           tree.files[<<"assets", IndexCss>>] \in {dist.files[n] : n \in CssOf(dist)}
    /\ JsOf(dist) # {} =>
           tree.files[<<"assets", IndexJs>>] \in {dist.files[n] : n \in JsOf(dist)}
    /\ \A n \in OthersOf(dist) : tree.files[<<"assets", n>>] = dist.files[n]

\* One template file and an empty assets folder; one .css, one .js and one
\* other entry in dist/assets.
Scenario ==
    /\ themeSrc = Tree({"layout", "assets"}, TemplateFiles({<<"layout", ThemeLiquid>>}))
    /\ dist = Tree({}, DistFiles({BundleCss, BundleJs, LogoPng}))

ScenarioPaths ==
    {<<"layout", ThemeLiquid>>, <<"assets", IndexCss>>, <<"assets", IndexJs>>,
     <<"assets", LogoPng>>}

\* C17 - after a successful run theme is theme-src overlaid with the
\* normalized assets, and in the scenario theme.zip holds exactly four
\* relative paths.
C17_OverlayAndFourPaths ==
    \A p \in Procs :
        "Archiving" \in done[p] =>
            /\ StagedIsOverlay(theme)
            /\ Scenario => {entry.name : entry \in zip.entries} = ScenarioPaths

\* C17 as amended - ... in the scenario theme.zip holds exactly four file
\* paths, and besides them the directory entries of layout and assets.
C17_OverlayAndFourFiles ==
    \A p \in Procs :
        "Archiving" \in done[p] =>
            /\ StagedIsOverlay(theme)
            /\ Scenario =>
                   /\ {entry.name : entry \in {x \in zip.entries : x.type = "file"}}
                          = ScenarioPaths
                   /\ {x \in zip.entries : x.type # "file"}
                          = {DirEntry("layout"), DirEntry("assets")}

C17_Witness ==
    /\ "Archiving" \in done[1]
    /\ Scenario
    /\ Cardinality(zip.entries) = 6


\* The entry of S that comes last in the order.
LastIn(order, S) ==
    order[CHOOSE i \in 1..Len(order) :
              /\ order[i] \in S
              /\ \A j \in (i + 1)..Len(order) : order[j] \notin S]

\* C18 - with more than one .css (.js) entry in dist/assets, index.css
\* (index.js) holds after normalization the content of the .css (.js) entry
\* that readdir listed last, whole, and normalization has raised no error.
C18_LastListedSurvives ==
    \A p \in Procs :
        "Normalizing" \in done[p] =>
            /\ Cardinality(CssOf(dist)) > 1 =>
                   normalized[p].files[<<"assets", IndexCss>>]
                       = dist.files[LastIn(Listing(p), CssOf(dist))]
            /\ Cardinality(JsOf(dist)) > 1 =>
                   normalized[p].files[<<"assets", IndexJs>>]
                       = dist.files[LastIn(Listing(p), JsOf(dist))]
            /\ (Cardinality(CssOf(dist)) > 1 \/ Cardinality(JsOf(dist)) > 1) =>
                   (pc[p] = "Archive" => raised[p] = {})

C18_Witness ==
    /\ pc[1] = "Exited" /\ exitCode[1] = 0
    /\ Cardinality(JsOf(dist)) > 1
    /\ Listing(1)[1] = ChunkJs
    /\ theme.files[<<"assets", IndexJs>>] = dist.files[BundleJs]


\* The target the suffix of the name alone selects.
TargetBySuffix(n) == IF IsCss(n) THEN IndexCss ELSE IF IsJs(n) THEN IndexJs ELSE n

IsOther(n) == ~IsCss(n) /\ ~IsJs(n)

\* C19 - the entries copied and the entries still to copy are together the
\* entries of dist/assets, each once; a step of the loop makes one copy, of
\* the next entry, to the target its suffix selects, and changes nothing else
\* in theme; no entry of the other kind goes to index.css or index.js and two
\* such entries never go to the same target.
C19_OneCopyPerEntry ==
    [][\A p \in Procs :
          /\ (pc[p] \in {"ReadDist", "CopyAssets"} /\ pc'[p] \in {"CopyAssets", "Archive"}) =>
                 (Listing(p) \o distFiles[p])' \in Perms(DOMAIN dist.files)
          /\ (pc'[p] = "Archive" /\ pc[p] # "Archive") => distFiles'[p] = <<>>
          /\ copied'[p] # copied[p] =>
                 LET file == Head(distFiles[p])
                     target == TargetBySuffix(file)
                 IN /\ copied'[p] = Append(copied[p], <<file, target>>)
                    /\ distFiles'[p] = Tail(distFiles[p])
                    /\ theme'.files =
                           Overlay(theme.files, [q \in {<<"assets", target>>} |-> dist.files[file]])
                    /\ theme'.dirs = theme.dirs
          /\ \A i, j \in 1..Len(copied'[p]) :
                 LET a == copied'[p][i]
                     b == copied'[p][j]
                 IN /\ IsOther(a[1]) => a[2] \notin {IndexCss, IndexJs}
                    /\ (IsOther(a[1]) /\ IsOther(b[1]) /\ a[1] # b[1]) => a[2] # b[2]]_vars

C19_Witness ==
    /\ "Normalizing" \in done[1]
    /\ Len(copied[1]) = 3
    /\ {copied[1][i] : i \in 1..3}
           = {<<JsMap, JsMap>>, <<CssWord, CssWord>>, <<BundleCss, IndexCss>>}


\* The files of the assets folder of theme-src.
TemplateAssets == {q \in DOMAIN themeSrc.files : q[1] = "assets"}

\* The copies of the loop to the target name t, and the entry copied last.
CopiesTo(p, t) == {i \in 1..Len(copied[p]) : copied[p][i][2] = t}

LastCopiedTo(p, t) ==
    copied[p][CHOOSE i \in CopiesTo(p, t) : \A j \in CopiesTo(p, t) : j <= i][1]

\* C20 - theme/assets is there from the listing of dist/assets on, so before
\* the first entry is copied, with or without an assets folder in theme-src;
\* once the template is staged its asset files stay in theme, with their
\* template content unless an entry of dist/assets was copied to their path.
C20_AssetsDirKeepsTemplateFiles ==
    \A p \in Procs :
        /\ (pc[p] \in {"ReadDist", "CopyAssets"} \/ copied[p] # <<>>) =>
               (theme.exists /\ "assets" \in theme.dirs)
        /\ "Staging" \in done[p] =>
               \A q \in TemplateAssets :
                   /\ q \in DOMAIN theme.files
                   /\ theme.files[q] =
                          IF CopiesTo(p, q[2]) # {}
                          THEN dist.files[LastCopiedTo(p, q[2])]
                          ELSE themeSrc.files[q]

C20_Witness ==
    /\ "Normalizing" \in done[1]
    /\ <<"assets", LogoPng>> \in TemplateAssets
    /\ <<"assets", NoteTxt>> \in TemplateAssets
    /\ LogoPng \in DOMAIN dist.files
    /\ theme.files[<<"assets", LogoPng>>] = dist.files[LogoPng]
    /\ theme.files[<<"assets", NoteTxt>>] = themeSrc.files[<<"assets", NoteTxt>>]
    /\ Len(copied[1]) >= 2


\* The operations of the run that have started and neither completed nor
\* failed: an awaited call until the run has moved on from it (a copy of the
\* loop until its entry is among the copied ones or the process has exited),
\* and the writing of the archive from the opening of theme.zip to the close
\* or the error of the stream.
Outstanding(p) ==
    {op \in issued[p] :
        CASE op[1] = "emptyDir" -> pc[p] = "Start"
          [] op[1] = "copyDir" -> pc[p] = "CopySrc"
          [] op[1] = "ensureDir" -> pc[p] = "EnsureAssets"
          [] op[1] = "readdir" -> pc[p] = "ReadDist"
          [] op[1] = "copy" ->
                 /\ pc[p] # "Exited"
                 /\ \A i \in 1..Len(copied[p]) : copied[p][i][1] # op[2]}
        \cup (IF output[p] \in {"open", "ending"} THEN {<<"archive", NoArg>>} ELSE {})

\* C21 - at most one operation of a run is outstanding at any time, and an
\* operation starts only in a state in which none is.
C21_OneOperationAtATime ==
    [][\A p \in Procs :
          /\ Cardinality(Outstanding(p)') <= 1
          /\ (Outstanding(p)' \ Outstanding(p) # {}) => Outstanding(p) = {}]_vars

C21_Witness ==
    /\ Outstanding(1) = {<<"copy", LogoPng>>}
    /\ Len(copied[1]) >= 1
    /\ Len(distFiles[1]) >= 2


\* The archive entries of a run of p alone with its listing order.
AloneEntries(p) == directory(CleanRun(themeSrc, dist, Listing(p)))

\* C22 - nothing keeps a second instance out: an instance that has not
\* exited can take its next step whatever the other instance is doing, also
\* while the other one is between its first and its last operation on theme
\* and theme.zip.
C22_NoMutualExclusion ==
    \A p \in Procs : pc[p] # "Exited" => ENABLED Step(p)

\* An instance ends with status 0 and the success message, the other one has
\* not touched theme.zip, and the archive is not the one of a run alone.
C22_Witness ==
    /\ pc[1] = "Exited" /\ exitCode[1] = 0
    /\ stdout[1] = <<SuccessLine>>
    /\ output[2] = "none"
    /\ pc[2] \notin {"Start", "Exited"}
    /\ zip.complete
    /\ zip.entries # AloneEntries(1)


\* C23 - every run ends: the process exits, with status 0 after the three
\* stages or with a non-zero status after an error.
C23_Terminates ==
    <>(/\ pc[1] = "Exited"
       /\ \/ exitCode[1] = 0 /\ done[1] = Stages /\ raised[1] = {}
          \/ exitCode[1] > 0 /\ raised[1] # {})

C23_Witness ==
    /\ pc[1] = "Exited"
    /\ exitCode[1] = 0
    /\ done[1] = Stages
    /\ Len(copied[1]) >= 2


\* C24 - from the end of normalization on, through the archive code and the
\* exit, no step changes theme: it stays on disk as it was normalized.
C24_ArchivingLeavesStaged ==
    [][\A p \in Procs :
          /\ "Normalizing" \in done[p] => UNCHANGED theme
          /\ "Normalizing" \in done'[p] =>
                 (theme'.exists /\ theme' = normalized'[p])]_vars

C24_Witness ==
    /\ pc[1] = "Exited"
    /\ done[1] = Stages
    /\ zip.complete
    /\ theme = normalized[1]
    /\ Cardinality(DOMAIN theme.files) >= 3

\* The number of times the line is in the log.
Count(log, line) == Cardinality({i \in 1..Len(log) : log[i] = line})

\* C25 - the success message is logged at most once in a run, and a run that
\* has raised an error or ends with a non-zero status has not logged it.
C25_SuccessOnceAndOnlyOnSuccess ==
    \A p \in Procs :
        /\ Count(stdout[p], SuccessLine) <= 1
        /\ (raised[p] # {} \/ exitCode[p] > 0) => Count(stdout[p], SuccessLine) = 0
        /\ (pc[p] = "Exited" /\ exitCode[p] = 0) => Count(stdout[p], SuccessLine) = 1

C25_Witness ==
    /\ pc[1] = "Exited"
    /\ exitCode[1] = 1
    /\ raised[1] = {"ArchiveError"}
    /\ output[1] = "errored"
    /\ zip.entries # {}
    /\ stdout[1] = <<>>


\* C26 - once every call of getProducts has settled, loading is false and
\* what the page shows is what the call for the current category, the one
\* made last, has settled with: its products and no error, or its error.
C26_LatestCategoryShown ==
    (page.calls > 0 /\ page.fetches = {}) =>
        /\ ~page.loading
        /\ page.outcome[1] \in {"ok", "error"}
        /\ page.outcome[1] = "ok" =>
               (page.products = page.outcome[2] /\ page.error = "none")
        /\ page.outcome[1] = "error" => page.error = page.outcome[2]

====
